---- MODULE Spec2Model ----
(***************************************************************************)
(* Model of the antiques-atlas pipeline:                                   *)
(*   step1_scrape.py  - paginated collection with a per-category cap       *)
(*   step2_clean.py   - normalisation and de-duplication                   *)
(*   step3_enrich.py  - per-item attribute generation                      *)
(* Each stage is a sequential script; a stage's position is a pc variable. *)
(***************************************************************************)
EXTENDS Integers, Sequences, FiniteSets, TLC

VARIABLES
    \* ---- step1_scrape.py: the catalogue site as the run sees it ----
    site,               \* category index -> listing shape (what the site serves)
    failing_urls,       \* item URLs whose requests.get / parse raises
    \* ---- step1_scrape.py: program state ----
    pc,                 \* position in the script
    category_index,     \* position of the for loop in CATEGORY_PATHS (0 = before it)
    items_collected,
    page_number,
    item_links,         \* links selected from the listing page being scanned
    link_index,         \* position of the for loop in item_links
    collected_items,
    visited_item_urls,
    raw_snapshot,       \* contents of RAW_OUTPUT_PATH (NotWritten until json.dump)
    \* ---- step1_scrape.py: observable history of the run ----
    listing_fetches,    \* requests.get calls on listing pages: <<category index, page>>
    fetched_by,         \* item URL -> category indexes that issued requests.get for it
    discovered_by,      \* item URL -> category indexes whose walk reached the link
    failure_log,        \* URLs printed by "Failed to process ..."
    visited_at_start,   \* category index -> visited_item_urls when its walk began
    \* ---- step2_clean.py ----
    raw_items,          \* json.load(RAW_DATA_PATH)
    clean_pc,           \* position in main()
    item_position,      \* position of the for loop in raw_items
    cleaned_items,
    seen_keys,
    clean_snapshot,     \* contents of CLEAN_DATA_PATH
    \* ---- step3_enrich.py ----
    clean_input,        \* json.load(CLEAN_DATA_PATH)
    responses,          \* what generate_attributes does for each item, in order
    enrich_pc,          \* position in main()
    enrich_position,    \* position of the for loop in clean_input
    final_records,
    skipped_log,        \* idx printed by "Skipped item ..."
    final_snapshot      \* contents of FINAL_DATA_PATH

scrape_vars == <<site, failing_urls, pc, category_index, items_collected, page_number,
                 item_links, link_index, collected_items, visited_item_urls,
                 raw_snapshot, listing_fetches, fetched_by, discovered_by,
                 failure_log, visited_at_start>>

clean_vars == <<raw_items, clean_pc, item_position, cleaned_items, seen_keys,
                clean_snapshot>>

enrich_vars == <<clean_input, responses, enrich_pc, enrich_position, final_records,
                 skipped_log, final_snapshot>>

vars == <<scrape_vars, clean_vars, enrich_vars>>

\* ------------------------------------------------------------------------
\* Generic helpers
\* ------------------------------------------------------------------------

Min(a, b) == IF a <= b THEN a ELSE b

Range(s) == {s[i] : i \in DOMAIN s}

Take(s, n) == SubSeq(s, 1, Min(n, Len(s)))

IsPrefix(s, t) == Len(s) <= Len(t) /\ SubSeq(t, 1, Len(s)) = s

\* A snapshot file: not yet written, or written with a list of records.
NotWritten == [written |-> FALSE, items |-> <<>>]

Written(items) == [written |-> TRUE, items |-> items]

\* ------------------------------------------------------------------------
\* Stages that are not running hold these values.
\* ------------------------------------------------------------------------

CleanIdle ==
    /\ raw_items = <<>>
    /\ clean_pc = "idle"
    /\ item_position = 1
    /\ cleaned_items = <<>>
    /\ seen_keys = {}
    /\ clean_snapshot = NotWritten

EnrichIdle ==
    /\ clean_input = <<>>
    /\ responses = <<>>
    /\ enrich_pc = "idle"
    /\ enrich_position = 1
    /\ final_records = <<>>
    /\ skipped_log = <<>>
    /\ final_snapshot = NotWritten

ScrapeIdle ==
    /\ site = <<>>
    /\ failing_urls = {}
    /\ pc = "idle"
    /\ category_index = 0
    /\ items_collected = 0
    /\ page_number = 1
    /\ item_links = <<>>
    /\ link_index = 1
    /\ collected_items = <<>>
    /\ visited_item_urls = {}
    /\ raw_snapshot = NotWritten
    /\ listing_fetches = <<>>
    /\ fetched_by = <<>>
    /\ discovered_by = <<>>
    /\ failure_log = <<>>
    /\ visited_at_start = <<>>

\* ------------------------------------------------------------------------
\* step1_scrape.py: configuration
\* ------------------------------------------------------------------------

CATEGORY_PATHS ==
    << "Furniture", "Ceramics", "Decorative Art", "Silver", "Jewellery", "Lighting" >>

MAX_ITEMS_PER_CATEGORY == 30

MAX_PAGES_TO_SCAN == 30

\* ------------------------------------------------------------------------
\* The site: what requests.get returns for a listing page.  Item URLs are
\* numbers.  A category's listing is a run of consecutive items cut into
\* pages; the site may list every item twice on a page (thumbnail and title
\* anchors), may answer every page number with its first page, and may serve
\* one empty page in the middle of the listing.
\* ------------------------------------------------------------------------

PageSize == 20           \* links per listing page of an ordinary category
CatalogueSize == 50      \* items of the largest category
SmallPageSize == 10      \* links per page of the category with an empty page
OverlapStart == 25       \* first item of the range shared between categories
OverlapCount == 16
StuckUrl == 200          \* item of the category that ignores the page number
LateUrl == 300           \* item only the last category lists

Shape(first, count, perPage, repeat, stuck, gap) ==
    [first |-> first, count |-> count, perPage |-> perPage,
     repeat |-> repeat, stuck |-> stuck, gap |-> gap]

EmptyShape == Shape(1, 0, PageSize, FALSE, FALSE, 0)

FirstCategoryShapes ==
    { Shape(1, CatalogueSize, PageSize, FALSE, FALSE, 0),
      Shape(1, CatalogueSize, PageSize, TRUE, FALSE, 0),
      Shape(1, MAX_ITEMS_PER_CATEGORY - 1, PageSize, FALSE, FALSE, 0),
      Shape(1, CatalogueSize, SmallPageSize, FALSE, FALSE, 3) }

SecondCategoryShapes ==
    { Shape(OverlapStart, OverlapCount, PageSize, FALSE, FALSE, 0),
      Shape(1, SmallPageSize, PageSize, TRUE, FALSE, 0),
      EmptyShape }

ThirdCategoryShapes ==
    { Shape(StuckUrl, 1, PageSize, FALSE, TRUE, 0),
      Shape(1, 1, PageSize, FALSE, TRUE, 0) }

Sites ==
    { [c \in 1..Len(CATEGORY_PATHS) |->
          CASE c = 1 -> s1
            [] c = 2 -> s2
            [] c = 3 -> s3
            [] c = Len(CATEGORY_PATHS) -> Shape(LateUrl - 1, 2, PageSize, FALSE, FALSE, 0)
            [] OTHER -> IF c = 4 THEN Shape(OverlapStart, 3, PageSize, FALSE, FALSE, 0)
                                 ELSE EmptyShape] :
      s1 \in FirstCategoryShapes, s2 \in SecondCategoryShapes, s3 \in ThirdCategoryShapes }

FlakyUrls == {1, OverlapStart + 1, StuckUrl}

\* soup.select("a[href^='/antique/']") on page p of category c
Listing(c, p) ==
    LET s == site[c]
        q == IF s.stuck THEN 1 ELSE p
        lo == s.first + (q - 1) * s.perPage
        hi == Min(s.first + s.count - 1, lo + s.perPage - 1)
        n == IF hi < lo \/ p = s.gap THEN 0 ELSE hi - lo + 1
    IN  IF s.repeat THEN [i \in 1..(2 * n) |-> lo + ((i - 1) \div 2)]
                    ELSE [i \in 1..n |-> lo + (i - 1)]

\* ------------------------------------------------------------------------
\* step1_scrape.py: the script
\* ------------------------------------------------------------------------

ScrapeInit ==
    /\ site \in Sites
    /\ failing_urls \in SUBSET FlakyUrls
    /\ pc = "for_category"
    /\ category_index = 0
    /\ items_collected = 0
    /\ page_number = 1
    /\ item_links = <<>>
    /\ link_index = 1
    /\ collected_items = <<>>
    /\ visited_item_urls = {}
    /\ raw_snapshot = NotWritten
    /\ listing_fetches = <<>>
    /\ fetched_by = <<>>
    /\ discovered_by = <<>>
    /\ failure_log = <<>>
    /\ visited_at_start = <<>>
    /\ CleanIdle
    /\ EnrichIdle

\* the cap compared with > instead of >=
CapReachedLate == items_collected > MAX_ITEMS_PER_CATEGORY

CapReached == items_collected >= MAX_ITEMS_PER_CATEGORY

\* the page limit off by one
WhileConditionOnePageMore == ~CapReached /\ page_number <= MAX_PAGES_TO_SCAN + 1

WhileCondition == ~CapReached /\ page_number <= MAX_PAGES_TO_SCAN

\* the relative link looked up in a set that holds absolute URLs: never found
AlreadyVisitedRelative(item_url) == FALSE

AlreadyVisited(item_url) == item_url \in visited_item_urls

RawItemRecord(item_url, category_name) ==
    [source_url |-> item_url, category |-> category_name]

\* The history of an item URL: the function extended or updated at url.
Noted(history, item_url, c) ==
    IF item_url \in DOMAIN history
    THEN [history EXCEPT ![item_url] = Append(@, c)]
    ELSE [u \in DOMAIN history \cup {item_url} |->
             IF u = item_url THEN <<c>> ELSE history[u]]

\* the visited set created inside the category loop
BeginCategoryFreshVisited ==
    /\ pc = "for_category"
    /\ category_index < Len(CATEGORY_PATHS)
    /\ category_index' = category_index + 1
    /\ items_collected' = 0
    /\ page_number' = 1
    /\ visited_item_urls' = {}
    /\ visited_at_start' = Append(visited_at_start, {})
    /\ pc' = "while"
    /\ UNCHANGED <<clean_vars, enrich_vars>>
    /\ UNCHANGED <<site, failing_urls, item_links, link_index, collected_items,
                   raw_snapshot, listing_fetches, fetched_by,
                   discovered_by, failure_log>>

\* for category_name, category_path in CATEGORY_PATHS.items(): next category
BeginCategory ==
    /\ pc = "for_category"
    /\ category_index < Len(CATEGORY_PATHS)
    /\ category_index' = category_index + 1
    /\ items_collected' = 0
    /\ page_number' = 1
    /\ visited_at_start' = Append(visited_at_start, visited_item_urls)
    /\ pc' = "while"
    /\ UNCHANGED <<clean_vars, enrich_vars>>
    /\ UNCHANGED <<site, failing_urls, item_links, link_index, collected_items,
                   visited_item_urls, raw_snapshot, listing_fetches, fetched_by,
                   discovered_by, failure_log>>

\* while condition false: the walk of this category ends
WhileExit ==
    /\ pc = "while"
    /\ ~WhileCondition
    /\ pc' = "for_category"
    /\ UNCHANGED <<clean_vars, enrich_vars>>
    /\ UNCHANGED <<site, failing_urls, category_index, items_collected, page_number,
                   item_links, link_index, collected_items, visited_item_urls,
                   raw_snapshot, listing_fetches, fetched_by, discovered_by,
                   failure_log, visited_at_start>>

\* requests.get on the listing page returns; an empty selection breaks the while
FetchListingPage ==
    /\ pc = "while"
    /\ WhileCondition
    /\ listing_fetches' = Append(listing_fetches, <<category_index, page_number>>)
    /\ item_links' = Listing(category_index, page_number)
    /\ link_index' = 1
    /\ pc' = IF item_links' = <<>> THEN "for_category" ELSE "for_link"
    /\ UNCHANGED <<clean_vars, enrich_vars>>
    /\ UNCHANGED <<site, failing_urls, category_index, items_collected, page_number,
                   collected_items, visited_item_urls, raw_snapshot, fetched_by,
                   discovered_by, failure_log, visited_at_start>>

\* requests.get on the listing page raises: nothing catches it, the script dies
ListingPageRaises ==
    /\ pc = "while"
    /\ WhileCondition
    /\ listing_fetches' = Append(listing_fetches, <<category_index, page_number>>)
    /\ pc' = "raised"
    /\ UNCHANGED <<clean_vars, enrich_vars>>
    /\ UNCHANGED <<site, failing_urls, category_index, items_collected, page_number,
                   item_links, link_index, collected_items, visited_item_urls,
                   raw_snapshot, fetched_by, discovered_by, failure_log,
                   visited_at_start>>

\* the for loop over item_links is exhausted, or breaks on the cap; page_number += 1
EndOfPage ==
    /\ pc = "for_link"
    /\ link_index > Len(item_links) \/ CapReached
    /\ page_number' = page_number + 1
    /\ pc' = "while"
    /\ UNCHANGED <<clean_vars, enrich_vars>>
    /\ UNCHANGED <<site, failing_urls, category_index, items_collected, item_links,
                   link_index, collected_items, visited_item_urls, raw_snapshot,
                   listing_fetches, fetched_by, discovered_by, failure_log,
                   visited_at_start>>

\* item_url in visited_item_urls: continue
SkipVisited ==
    /\ pc = "for_link"
    /\ link_index <= Len(item_links)
    /\ ~CapReached
    /\ AlreadyVisited(item_links[link_index])
    /\ discovered_by' = Noted(discovered_by, item_links[link_index], category_index)
    /\ link_index' = link_index + 1
    /\ UNCHANGED <<clean_vars, enrich_vars>>
    /\ UNCHANGED <<site, failing_urls, pc, category_index, items_collected,
                   page_number, item_links, collected_items, visited_item_urls,
                   raw_snapshot, listing_fetches, fetched_by, failure_log,
                   visited_at_start>>

\* new link: mark visited, fetch and parse the item page, append the record
ItemCollected ==
    /\ pc = "for_link"
    /\ link_index <= Len(item_links)
    /\ ~CapReached
    /\ ~AlreadyVisited(item_links[link_index])
    /\ item_links[link_index] \notin failing_urls
    /\ visited_item_urls' = visited_item_urls \cup {item_links[link_index]}
    /\ discovered_by' = Noted(discovered_by, item_links[link_index], category_index)
    /\ fetched_by' = Noted(fetched_by, item_links[link_index], category_index)
    /\ collected_items' =
          Append(collected_items,
                 RawItemRecord(item_links[link_index], CATEGORY_PATHS[category_index]))
    /\ items_collected' = items_collected + 1
    /\ link_index' = link_index + 1
    /\ UNCHANGED <<clean_vars, enrich_vars>>
    /\ UNCHANGED <<site, failing_urls, pc, category_index, page_number, item_links,
                   raw_snapshot, listing_fetches, failure_log, visited_at_start>>

\* the collected count incremented on the failure path too
ItemFailedCounted ==
    /\ pc = "for_link"
    /\ link_index <= Len(item_links)
    /\ ~CapReached
    /\ ~AlreadyVisited(item_links[link_index])
    /\ item_links[link_index] \in failing_urls
    /\ visited_item_urls' = visited_item_urls \cup {item_links[link_index]}
    /\ discovered_by' = Noted(discovered_by, item_links[link_index], category_index)
    /\ fetched_by' = Noted(fetched_by, item_links[link_index], category_index)
    /\ failure_log' = Append(failure_log, item_links[link_index])
    /\ items_collected' = items_collected + 1
    /\ link_index' = link_index + 1
    /\ UNCHANGED <<clean_vars, enrich_vars>>
    /\ UNCHANGED <<site, failing_urls, pc, category_index,
                   page_number, item_links, collected_items, raw_snapshot,
                   listing_fetches, visited_at_start>>

\* new link: mark visited, the fetch or parse raises, except Exception prints it
ItemFailed ==
    /\ pc = "for_link"
    /\ link_index <= Len(item_links)
    /\ ~CapReached
    /\ ~AlreadyVisited(item_links[link_index])
    /\ item_links[link_index] \in failing_urls
    /\ visited_item_urls' = visited_item_urls \cup {item_links[link_index]}
    /\ discovered_by' = Noted(discovered_by, item_links[link_index], category_index)
    /\ fetched_by' = Noted(fetched_by, item_links[link_index], category_index)
    /\ failure_log' = Append(failure_log, item_links[link_index])
    /\ link_index' = link_index + 1
    /\ UNCHANGED <<clean_vars, enrich_vars>>
    /\ UNCHANGED <<site, failing_urls, pc, category_index, items_collected,
                   page_number, item_links, collected_items, raw_snapshot,
                   listing_fetches, visited_at_start>>

\* the for loop over the categories is done: json.dump(collected_items)
SaveResults ==
    /\ pc = "for_category"
    /\ category_index = Len(CATEGORY_PATHS)
    /\ raw_snapshot' = Written(collected_items)
    /\ pc' = "done"
    /\ UNCHANGED <<clean_vars, enrich_vars>>
    /\ UNCHANGED <<site, failing_urls, category_index, items_collected, page_number,
                   item_links, link_index, collected_items, visited_item_urls,
                   listing_fetches, fetched_by, discovered_by, failure_log,
                   visited_at_start>>

ScrapeNext ==
    \/ BeginCategory
    \/ WhileExit
    \/ FetchListingPage
    \/ ListingPageRaises
    \/ EndOfPage
    \/ SkipVisited
    \/ ItemCollected
    \/ ItemFailed
    \/ SaveResults


\* ------------------------------------------------------------------------
\* Text.  A Python str is a sequence of one-character strings; None is a
\* value of its own.
\* ------------------------------------------------------------------------

None == <<"<None>">>

\* bool(x) for an Optional[str]
Truthy(text) == text # None /\ text # <<>>

\* (x or "")
OrEmpty(text) == IF Truthy(text) THEN text ELSE <<>>

UpperCaseLetters ==
    <<"A", "B", "C", "D", "E", "F", "G", "H", "I", "J", "K", "L", "M",
      "N", "O", "P", "Q", "R", "S", "T", "U", "V", "W", "X", "Y", "Z">>

LowerCaseLetters ==
    <<"a", "b", "c", "d", "e", "f", "g", "h", "i", "j", "k", "l", "m",
      "n", "o", "p", "q", "r", "s", "t", "u", "v", "w", "x", "y", "z">>

LowerChar(ch) ==
    IF \E i \in DOMAIN UpperCaseLetters : UpperCaseLetters[i] = ch
    THEN LowerCaseLetters[CHOOSE i \in DOMAIN UpperCaseLetters : UpperCaseLetters[i] = ch]
    ELSE ch

\* str.lower()
Lower(text) == [i \in DOMAIN text |-> LowerChar(text[i])]

\* \s of the re module, and the characters str.strip() removes
IsSpace(ch) == ch \in {" ", "\t", "\n", "\r", "\f"}

\* \d of the re module
IsDigit(ch) == ch \in {"0", "1", "2", "3", "4", "5", "6", "7", "8", "9"}

\* str.strip()
Strip(text) ==
    LET solid == {i \in DOMAIN text : ~IsSpace(text[i])}
    IN  IF solid = {} THEN <<>>
        ELSE SubSeq(text,
                    CHOOSE i \in solid : \A j \in solid : i <= j,
                    CHOOSE i \in solid : \A j \in solid : j <= i)

\* sub in text
Contains(text, sub) ==
    \E i \in 1..(Len(text) - Len(sub) + 1) : SubSeq(text, i, i + Len(sub) - 1) = sub

\* re.sub(r"\s+", " ", text)
CollapseWhitespace(text) ==
    LET marked == [i \in DOMAIN text |->
                      IF ~IsSpace(text[i]) THEN text[i]
                      ELSE IF i > 1 /\ IsSpace(text[i - 1]) THEN "<dropped>"
                      ELSE " "]
    IN  SelectSeq(marked, LAMBDA ch : ch # "<dropped>")

\* re.search(r"([\d,.]+)", text).group(1), or None when nothing matches
IsNumberChar(ch) == IsDigit(ch) \/ ch \in {",", "."}

FirstNumberRun(text) ==
    LET starts == {i \in DOMAIN text : IsNumberChar(text[i])}
    IN  IF starts = {} THEN None
        ELSE LET first == CHOOSE i \in starts : \A j \in starts : i <= j
                 ends == {j \in first..Len(text) :
                             \A k \in first..j : IsNumberChar(text[k])}
                 last == CHOOSE j \in ends : \A k \in ends : k <= j
             IN  SubSeq(text, first, last)

\* str.replace(",", "")
WithoutCommas(text) == SelectSeq(text, LAMBDA ch : ch # ",")

DigitValue(ch) ==
    CASE ch = "0" -> 0 [] ch = "1" -> 1 [] ch = "2" -> 2 [] ch = "3" -> 3
      [] ch = "4" -> 4 [] ch = "5" -> 5 [] ch = "6" -> 6 [] ch = "7" -> 7
      [] ch = "8" -> 8 [] ch = "9" -> 9

RECURSIVE DigitsValue(_)
DigitsValue(digits) ==
    IF digits = <<>> THEN 0
    ELSE 10 * DigitsValue(SubSeq(digits, 1, Len(digits) - 1))
         + DigitValue(digits[Len(digits)])

\* A float: mantissa / 10^scale, with no trailing zero in the fraction, so that
\* equal numbers are equal values.
RECURSIVE Float(_, _)
Float(mantissa, scale) ==
    IF scale > 0 /\ mantissa % 10 = 0 THEN Float(mantissa \div 10, scale - 1)
    ELSE <<"float", mantissa, scale>>

ValueError == <<"<ValueError>">>

\* float(text) for a text of digits and points: at most one point and at
\* least one digit, else ValueError
ParseFloat(text) ==
    LET points == {i \in DOMAIN text : text[i] = "."}
        digits == SelectSeq(text, IsDigit)
    IN  IF Cardinality(points) > 1 \/ digits = <<>> THEN ValueError
        ELSE Float(DigitsValue(digits),
                   IF points = {} THEN 0
                   ELSE Len(text) - (CHOOSE i \in points : TRUE))

\* ------------------------------------------------------------------------
\* step2_clean.py
\* ------------------------------------------------------------------------

\* the keys and values of CATEGORY_LOOKUP, and the fallback
CATEGORY_LOOKUP ==
    { <<<<"F", "u", "r", "n", "i", "t", "u", "r", "e">>,
        <<"f", "u", "r", "n", "i", "t", "u", "r", "e">>>>,
      <<<<"C", "e", "r", "a", "m", "i", "c", "s">>,
        <<"c", "e", "r", "a", "m", "i", "c", "s">>>>,
      <<<<"D", "e", "c", "o", "r", "a", "t", "i", "v", "e", " ", "A", "r", "t">>,
        <<"d", "e", "c", "o", "r", "a", "t", "i", "v", "e", "_", "a", "r", "t">>>>,
      <<<<"S", "i", "l", "v", "e", "r">>,
        <<"s", "i", "l", "v", "e", "r">>>>,
      <<<<"J", "e", "w", "e", "l", "l", "e", "r", "y">>,
        <<"j", "e", "w", "e", "l", "l", "e", "r", "y">>>>,
      <<<<"L", "i", "g", "h", "t", "i", "n", "g">>,
        <<"l", "i", "g", "h", "t", "i", "n", "g">>>> }

OTHER_CATEGORY == <<"o", "t", "h", "e", "r">>

POA_MARKER == <<"p", "o", "a">>

KEY_SEPARATOR == <<":", ":">>

MIN_DESCRIPTION_LENGTH == 20

DEDUPE_TITLE_LENGTH == 40

normalize_category(category) ==
    IF ~Truthy(category) THEN OTHER_CATEGORY
    ELSE IF \E entry \in CATEGORY_LOOKUP : entry[1] = Strip(category)
    THEN (CHOOSE entry \in CATEGORY_LOOKUP : entry[1] = Strip(category))[2]
    ELSE OTHER_CATEGORY

clean_description(text) ==
    IF ~Truthy(text) THEN None
    ELSE LET cleaned == Strip(CollapseWhitespace(text))
         IN  IF Len(cleaned) < MIN_DESCRIPTION_LENGTH THEN None ELSE cleaned

parse_price_value(price_text) ==
    IF ~Truthy(price_text) THEN None
    ELSE IF Contains(Lower(price_text), POA_MARKER) THEN None
    ELSE LET match == FirstNumberRun(Lower(price_text))
         IN  IF match = None THEN None
             ELSE LET parsed == ParseFloat(WithoutCommas(match))
                  IN  IF parsed = ValueError THEN None ELSE parsed

\* the title compared in the letter case it was written in
build_dedupe_key_case_sensitive(item) ==
    LET title == Strip(OrEmpty(item.item_title))
        price == Strip(OrEmpty(item.listed_price))
    IN  Take(title, DEDUPE_TITLE_LENGTH) \o KEY_SEPARATOR \o price

build_dedupe_key(item) ==
    LET title == Strip(Lower(OrEmpty(item.item_title)))
        price == Strip(OrEmpty(item.listed_price))
    IN  Take(title, DEDUPE_TITLE_LENGTH) \o KEY_SEPARATOR \o price

\* the cleaned_record main() builds for a raw item
CleanedRecord(item) ==
    [source_url |-> item.source_url,
     item_title |-> item.item_title,
     category_raw |-> item.category,
     description_raw |-> item.description_raw,
     listed_price_raw |-> item.listed_price,
     currency |-> item.currency,
     seller_location |-> item.seller_location,
     images |-> item.images,
     category_normalized |-> normalize_category(item.category),
     description_clean |-> clean_description(item.description_raw),
     price_value |-> parse_price_value(item.listed_price)]

\* ------------------------------------------------------------------------
\* step2_clean.py: raw snapshots main() is run on
\* ------------------------------------------------------------------------

MaxRawItems == 3         \* records of a raw snapshot
MaxPriceTokens == 2      \* pieces a raw price text is put together from

CURRENCY == <<"G", "B", "P">>

RawItem(url, title, price, category, description) ==
    [source_url |-> url, item_title |-> title, category |-> category,
     description_raw |-> description, images |-> <<>>, listed_price |-> price,
     currency |-> CURRENCY, seller_location |-> None]

OakChair == <<"O", "a", "k", " ", "C", "h", "a", "i", "r">>

OakChairPadded == <<" ", "o", "a", "k", " ", "c", "h", "a", "i", "r", " ">>

LongTitle == <<"v", "i", "c", "t", "o", "r", "i", "a", "n", " ", "m", "a", "h", "o",
        "g", "a", "n", "y", " ", "c", "h", "e", "s", "t", " ", "o", "f", " ", "f", "i",
        "v", "e", " ", "d", "r", "a", "w", "e", "r", "s">>

LongTitleUpper == <<"V", "I", "C", "T", "O", "R", "I", "A", "N", " ", "M", "A", "H",
        "O", "G", "A", "N", "Y", " ", "C", "H", "E", "S", "T", " ", "O", "F", " ", "F",
        "I", "V", "E", " ", "D", "R", "A", "W", "E", "R", "S">>

TenPounds == <<"£", "1", "0">>

TenPoundsPadded == <<" ", "£", "1", "0", " ">>

TwentyPounds == <<"£", "2", "0">>

Furniture == <<"F", "u", "r", "n", "i", "t", "u", "r", "e">>

PlainDescription == <<"A", " ", "c", "a", "r", "v", "e", "d", " ", "w", "a", "l", "n",
        "u", "t", " ", "f", "r", "a", "m", "e", "s">>

\* <<title, price>> of the listings that duplicate detection is run on: the
\* same listing in another letter case or padding, titles alike in their first
\* DEDUPE_TITLE_LENGTH characters, missing fields, and texts holding the
\* key separator.
DuplicateProneListings ==
    { <<OakChair, TenPounds>>,
      <<OakChairPadded, TenPoundsPadded>>,
      <<OakChair, TwentyPounds>>,
      <<LongTitle \o <<"s">>, TenPounds>>,
      <<LongTitleUpper \o <<" ", "x">>, TenPounds>>,
      <<None, None>>,
      <<<<>>, <<>>>>,
      <<<<"x">> \o KEY_SEPARATOR, <<"y">>>>,
      <<<<"x">>, KEY_SEPARATOR \o <<"y">>>> }

DuplicateProneSnapshots ==
    UNION { { [i \in 1..n |->
                 RawItem(i, listing[i][1], listing[i][2], Furniture, PlainDescription)] :
              listing \in [1..n -> DuplicateProneListings] } :
            n \in 0..MaxRawItems }

CategoryLabels ==
    { None, <<>>,
      <<"F", "u", "r", "n", "i", "t", "u", "r", "e">>,
      <<" ", "F", "u", "r", "n", "i", "t", "u", "r", "e", " ">>,
      <<"f", "u", "r", "n", "i", "t", "u", "r", "e">>,
      <<"C", "e", "r", "a", "m", "i", "c", "s">>,
      <<"D", "e", "c", "o", "r", "a", "t", "i", "v", "e", " ", "A", "r", "t">>,
      <<"d", "e", "c", "o", "r", "a", "t", "i", "v", "e", "_", "a", "r", "t">>,
      <<"S", "i", "l", "v", "e", "r">>,
      <<"J", "e", "w", "e", "l", "l", "e", "r", "y">>,
      <<"L", "i", "g", "h", "t", "i", "n", "g">>,
      <<"l", "i", "g", "h", "t", "i", "n", "g">>,
      <<"C", "l", "o", "c", "k", "s">>,
      <<"o", "t", "h", "e", "r">> }

DescriptionTokens ==
    { <<"c", "a", "r", "v", "e", "d", " ", "w", "a", "l", "n", "u", "t", " ", "f", "r", "a",
          "m", "e">>,
      <<"c", "a", "r", "v", "e", "d", " ", "w", "a", "l", "n", "u", "t", " ", "f", "r", "a",
          "m", "e", "s">>,
      <<"a", " ", " ", " ", "b", "\n", "\n", "c">>,
      <<" ">>,
      <<"\n", "\t", " ">>,
      <<"F", "i", "n", "e">> }

DescriptionTexts ==
    {None, <<>>} \cup DescriptionTokens
    \cup {a \o b : a \in DescriptionTokens, b \in DescriptionTokens}

PriceTokens ==
    { <<"P", "O", "A">>,
      <<"p", "o", "a">>,
      <<"P", "r", "i", "c", "e", " ", "o", "n", " ", "a", "p", "p", "l", "i", "c", "a", "t",
          "i", "o", "n">>,
      <<"£", "1", ",", "2", "5", "0", ".", "0", "0">>,
      <<" ", "f", "r", "o", "m", " ", "£", "2", "5", "0">>,
      <<"0">>,
      <<"9", "9", ".", "5">>,
      <<",">>,
      <<".">>,
      <<"1", ".", "2", ".", "3">>,
      <<" ">>,
      <<"c", "o", "n", "t", "a", "c", "t", " ", "f", "o", "r", " ", "p", "r", "i", "c", "e">> }

RECURSIVE TextsOf(_, _)
TextsOf(tokens, n) ==
    IF n = 0 THEN {<<>>}
    ELSE TextsOf(tokens, n - 1)
         \cup {a \o b : a \in TextsOf(tokens, n - 1), b \in tokens}

PriceTexts == {None} \cup TextsOf(PriceTokens, MaxPriceTokens)

\* one-record snapshots, varying one raw field at a time
SingleRecordSnapshots ==
    { <<RawItem(1, OakChair, TenPounds, category, PlainDescription)>> :
        category \in CategoryLabels }
    \cup { <<RawItem(1, OakChair, TenPounds, Furniture, description)>> :
             description \in DescriptionTexts }
    \cup { <<RawItem(1, OakChair, price, Furniture, PlainDescription)>> :
             price \in PriceTexts }

\* ------------------------------------------------------------------------
\* step2_clean.py: main()
\* ------------------------------------------------------------------------

CleanInit ==
    /\ raw_items \in DuplicateProneSnapshots \cup SingleRecordSnapshots
    /\ clean_pc = "for_item"
    /\ item_position = 1
    /\ cleaned_items = <<>>
    /\ seen_keys = {}
    /\ clean_snapshot = NotWritten
    /\ ScrapeIdle
    /\ EnrichIdle

SeenBefore(dedupe_id) == dedupe_id \in seen_keys

\* dedupe_id in seen_keys: continue
DropDuplicate ==
    /\ clean_pc = "for_item"
    /\ item_position <= Len(raw_items)
    /\ SeenBefore(build_dedupe_key(raw_items[item_position]))
    /\ item_position' = item_position + 1
    /\ UNCHANGED <<scrape_vars, enrich_vars>>
    /\ UNCHANGED <<raw_items, clean_pc, cleaned_items, seen_keys, clean_snapshot>>

\* first record with this key: remember the key, build and append the record
KeepItem ==
    /\ clean_pc = "for_item"
    /\ item_position <= Len(raw_items)
    /\ ~SeenBefore(build_dedupe_key(raw_items[item_position]))
    /\ seen_keys' = seen_keys \cup {build_dedupe_key(raw_items[item_position])}
    /\ cleaned_items' = Append(cleaned_items, CleanedRecord(raw_items[item_position]))
    /\ item_position' = item_position + 1
    /\ UNCHANGED <<scrape_vars, enrich_vars>>
    /\ UNCHANGED <<raw_items, clean_pc, clean_snapshot>>

\* the loop is done: json.dump(cleaned_items)
WriteCleanSnapshot ==
    /\ clean_pc = "for_item"
    /\ item_position > Len(raw_items)
    /\ clean_snapshot' = Written(cleaned_items)
    /\ clean_pc' = "done"
    /\ UNCHANGED <<scrape_vars, enrich_vars>>
    /\ UNCHANGED <<raw_items, item_position, cleaned_items, seen_keys>>

CleanNext ==
    \/ DropDuplicate
    \/ KeepItem
    \/ WriteCleanSnapshot

SpecClean == CleanInit /\ [][CleanNext]_vars

\* ------------------------------------------------------------------------
\* Properties of the cleaning run
\* ------------------------------------------------------------------------

\* The pair duplicate detection is specified on: the first
\* DEDUPE_TITLE_LENGTH characters of the lower-cased trimmed title, and the
\* trimmed raw price text.
DedupePair(title, price) ==
    <<Take(Strip(Lower(OrEmpty(title))), DEDUPE_TITLE_LENGTH), Strip(OrEmpty(price))>>

PairOfRaw(i) == DedupePair(raw_items[i].item_title, raw_items[i].listed_price)

PairOfClean(k) == DedupePair(cleaned_items[k].item_title, cleaned_items[k].listed_price_raw)

\* raw records the loop has gone through, and those of them in cleaned_items
\* (a raw record's source_url is its position in the snapshot)
Processed == 1..(item_position - 1)

Survivors == {cleaned_items[k].source_url : k \in DOMAIN cleaned_items}

\* C7: the clean sequence holds at most one record per pair; of two raw records
\* with the same pair the later one never survives, and a raw record survives
\* when no earlier record has its key; survivors keep their input order; the
\* snapshot written is that sequence.
DedupInvariant ==
    /\ \A k, l \in DOMAIN cleaned_items : k # l => PairOfClean(k) # PairOfClean(l)
    /\ \A i, j \in Processed : (i < j /\ PairOfRaw(i) = PairOfRaw(j)) => j \notin Survivors
    /\ \A i \in Processed :
          (\A j \in 1..(i - 1) :
              build_dedupe_key(raw_items[j]) # build_dedupe_key(raw_items[i]))
          => i \in Survivors
    /\ Survivors \subseteq Processed
    /\ \A k, l \in DOMAIN cleaned_items :
          k < l => cleaned_items[k].source_url < cleaned_items[l].source_url
    /\ clean_pc = "done" => clean_snapshot = Written(cleaned_items)

\* C7 witness: a finished run over three records of which the second, written
\* in another letter case and padding than the first, was dropped, and the
\* third, alike only beyond the compared characters of another title, kept.
DedupInvariantWitness ==
    /\ clean_pc = "done"
    /\ Len(raw_items) = 3
    /\ raw_items[1].item_title # raw_items[2].item_title
    /\ raw_items[1].listed_price # raw_items[2].listed_price
    /\ PairOfRaw(1) = PairOfRaw(2)
    /\ Len(OrEmpty(raw_items[3].item_title)) > DEDUPE_TITLE_LENGTH
    /\ Survivors = {1, 3}

AttributeError == <<"<AttributeError>">>

\* parse_price_value called with a price_value (None or a float) instead of a
\* text: a falsy argument returns None, any other float has no lower()
parse_price_value_of_float(price_value) ==
    IF price_value = None \/ price_value = Float(0, 0) THEN None ELSE AttributeError

\* C8 (as stated): each normalised value of a cleaned record is returned
\* unchanged by the function that produced it.
NormalizerIdempotent ==
    \A k \in DOMAIN cleaned_items :
        /\ normalize_category(cleaned_items[k].category_normalized)
              = cleaned_items[k].category_normalized
        /\ clean_description(cleaned_items[k].description_clean)
              = cleaned_items[k].description_clean
        /\ parse_price_value_of_float(cleaned_items[k].price_value)
              = cleaned_items[k].price_value

PRICE_ON_APPLICATION == <<"p", "r", "i", "c", "e", " ", "o", "n", " ", "a", "p", "p",
        "l", "i", "c", "a", "t", "i", "o", "n">>

HasPoaMarker(text) ==
    Contains(Lower(text), POA_MARKER) \/ Contains(Lower(text), PRICE_ON_APPLICATION)

\* C9 (as stated): price_value is None whenever the raw price text holds a
\* price-on-application marker in any letter case, and when the text is
\* missing or empty, has no digit, or has a first number run that is no number.
PoaAndUnparseableAreNull ==
    \A k \in DOMAIN cleaned_items :
        LET text == cleaned_items[k].listed_price_raw
            value == cleaned_items[k].price_value
        IN  /\ ~Truthy(text) => value = None
            /\ (Truthy(text) /\ HasPoaMarker(text)) => value = None
            /\ (Truthy(text) /\ SelectSeq(text, IsDigit) = <<>>) => value = None
            /\ (Truthy(text) /\ FirstNumberRun(text) # None
                  /\ ParseFloat(WithoutCommas(FirstNumberRun(text))) = ValueError)
               => value = None

\* ------------------------------------------------------------------------
\* step3_enrich.py.  Texts are compared whole here, so a text is a string and
\* None the string NoValue.
\* ------------------------------------------------------------------------

MaxCleanItems == 3       \* records of a clean snapshot

NoValue == "<None>"

UNKNOWN == "unknown"

\* (x or "unknown")
OrUnknown(text) == IF text = NoValue \/ text = "" THEN UNKNOWN ELSE text

\* dict.get(key)
Get(mapping, key) == IF key \in DOMAIN mapping THEN mapping[key] ELSE NoValue

DERIVED_FIELDS ==
    { "era_or_time_period", "estimated_year_range", "region_of_origin",
      "functional_use", "material", "style", "short_summary", "confidence_score" }

\* What generate_attributes(prompt) does: the request or json.loads raises, or
\* json.loads returns the JSON value of the response text - an object, or any
\* other JSON value (here a list).
Raises == [kind |-> "raises", value |-> <<>>]

Returns(kind, value) == [kind |-> kind, value |-> value]

GenerateOutcomes ==
    { Raises,
      Returns("dict", [f \in DERIVED_FIELDS |-> "Victorian"]),
      Returns("dict", [f \in {"material"} |-> "oak"]),
      Returns("list", <<>>) }

CleanItems ==
    { [source_url |-> 1, item_title |-> "Oak Chair", category_raw |-> "Furniture",
       description_raw |-> "A carved  walnut frames", listed_price_raw |-> "GBP 10",
       currency |-> "GBP", seller_location |-> NoValue, images |-> <<>>,
       category_normalized |-> "furniture",
       description_clean |-> "A carved walnut frames", price_value |-> "10.0"],
      [source_url |-> 2, item_title |-> NoValue, category_raw |-> NoValue,
       description_raw |-> NoValue, listed_price_raw |-> NoValue,
       currency |-> "GBP", seller_location |-> NoValue, images |-> <<>>,
       category_normalized |-> "other",
       description_clean |-> NoValue, price_value |-> NoValue] }

EnrichInit ==
    /\ \E n \in 0..MaxCleanItems :
          /\ clean_input \in [1..n -> CleanItems]
          /\ responses \in [1..n -> GenerateOutcomes]
    /\ enrich_pc = "for_item"
    /\ enrich_position = 1
    /\ final_records = <<>>
    /\ skipped_log = <<>>
    /\ final_snapshot = NotWritten
    /\ ScrapeIdle
    /\ CleanIdle

\* the final_record main() builds from a clean item and the derived mapping
FinalRecord(item, derived) ==
    [source_url |-> item.source_url,
     item_title |-> OrUnknown(item.item_title),
     category_raw |-> item.category_raw,
     description_raw |-> item.description_raw,
     images |-> item.images,
     listed_price_raw |-> item.listed_price_raw,
     currency |-> item.currency,
     seller_location |-> item.seller_location,
     category_normalized |-> OrUnknown(item.category_normalized),
     description_clean |-> item.description_clean,
     price_value |-> item.price_value,
     derived |-> [f \in DERIVED_FIELDS |-> Get(derived, f)]]

\* generate_attributes raises inside the try: print, continue
EnrichSkipped ==
    /\ enrich_pc = "for_item"
    /\ enrich_position <= Len(clean_input)
    /\ responses[enrich_position].kind = "raises"
    /\ skipped_log' = Append(skipped_log, enrich_position)
    /\ enrich_position' = enrich_position + 1
    /\ UNCHANGED <<scrape_vars, clean_vars>>
    /\ UNCHANGED <<clean_input, responses, enrich_pc, final_records, final_snapshot>>

\* generate_attributes returns a dict: build and append the final record
EnrichAppended ==
    /\ enrich_pc = "for_item"
    /\ enrich_position <= Len(clean_input)
    /\ responses[enrich_position].kind = "dict"
    /\ final_records' =
          Append(final_records,
                 FinalRecord(clean_input[enrich_position], responses[enrich_position].value))
    /\ enrich_position' = enrich_position + 1
    /\ UNCHANGED <<scrape_vars, clean_vars>>
    /\ UNCHANGED <<clean_input, responses, enrich_pc, skipped_log, final_snapshot>>

\* generate_attributes returns a JSON value that is no dict: derived.get, outside
\* the try, raises AttributeError and main() dies
EnrichRaises ==
    /\ enrich_pc = "for_item"
    /\ enrich_position <= Len(clean_input)
    /\ responses[enrich_position].kind \notin {"raises", "dict"}
    /\ enrich_pc' = "raised"
    /\ UNCHANGED <<scrape_vars, clean_vars>>
    /\ UNCHANGED <<clean_input, responses, enrich_position, final_records, skipped_log,
                   final_snapshot>>

\* the loop is done: json.dump(final_records)
WriteFinalSnapshot ==
    /\ enrich_pc = "for_item"
    /\ enrich_position > Len(clean_input)
    /\ final_snapshot' = Written(final_records)
    /\ enrich_pc' = "done"
    /\ UNCHANGED <<scrape_vars, clean_vars>>
    /\ UNCHANGED <<clean_input, responses, enrich_position, final_records, skipped_log>>

EnrichNext ==
    \/ EnrichSkipped
    \/ EnrichAppended
    \/ EnrichRaises
    \/ WriteFinalSnapshot

SpecEnrich == EnrichInit /\ [][EnrichNext]_vars

\* ------------------------------------------------------------------------
\* Properties of the enrichment run
\* ------------------------------------------------------------------------

EnrichEnded == enrich_pc \in {"done", "raised"}

\* positions of the clean items whose generate_attributes call did not raise
SucceededCalls == {i \in DOMAIN clean_input : responses[i].kind # "raises"}

\* C10 (as stated): an item whose call raised is skipped and the loop goes on;
\* when main() has ended, the final snapshot is written and holds exactly one
\* record for each clean item whose call succeeded, in clean-sequence order.
EnrichmentFailureIsolated ==
    /\ \A k \in DOMAIN skipped_log :
          /\ responses[skipped_log[k]].kind = "raises"
          /\ skipped_log[k] < enrich_position
    /\ EnrichEnded =>
          /\ final_snapshot = Written(final_records)
          /\ Len(final_records) = Cardinality(SucceededCalls)
          /\ \A k \in DOMAIN final_records :
                \E i \in SucceededCalls :
                    /\ Cardinality({j \in SucceededCalls : j <= i}) = k
                    /\ final_records[k].source_url = clean_input[i].source_url

SpecScrape == ScrapeInit /\ [][ScrapeNext]_vars

\* The script is sequential and every request carries a timeout, so a step
\* that can be taken is eventually taken.
FairSpecScrape == SpecScrape /\ WF_vars(ScrapeNext)

Spec == SpecScrape

\* ------------------------------------------------------------------------
\* Properties of the collection run
\* ------------------------------------------------------------------------

RecordsOf(c) == SelectSeq(collected_items, LAMBDA r : r.category = CATEGORY_PATHS[c])

Urls(records) == [i \in DOMAIN records |-> records[i].source_url]

RecordsAbout(item_url) == SelectSeq(collected_items, LAMBDA r : r.source_url = item_url)

PagesFetched(c) ==
    LET mine == SelectSeq(listing_fetches, LAMBDA f : f[1] = c)
    IN  [i \in DOMAIN mine |-> mine[i][2]]

RunEnded == pc \in {"done", "raised"}

WalkComplete(c) ==
    \/ c < category_index
    \/ c = category_index /\ pc \in {"for_category", "done"}

\* Pages a walk can scan: those before the first empty page, within the limit.
ScannablePages(c) ==
    LET empty == {p \in 1..MAX_PAGES_TO_SCAN : Listing(c, p) = <<>>}
    IN  IF empty = {} THEN MAX_PAGES_TO_SCAN
        ELSE (CHOOSE p \in empty : \A q \in empty : p <= q) - 1

RECURSIVE LinksOfPages(_, _)
LinksOfPages(c, lastPage) ==
    IF lastPage = 0 THEN <<>>
    ELSE LinksOfPages(c, lastPage - 1) \o Listing(c, lastPage)

\* The links links[lo..hi], in order, that are not in seen, each once, leaving
\* out those whose fetch fails.
RECURSIVE NewlyCollectable(_, _, _, _)
NewlyCollectable(links, lo, hi, seen) ==
    IF lo > hi THEN <<>>
    ELSE IF lo = hi
    THEN IF links[lo] \in seen \/ links[lo] \in failing_urls THEN <<>> ELSE <<links[lo]>>
    ELSE LET mid == (lo + hi) \div 2
         IN  NewlyCollectable(links, lo, mid, seen)
             \o NewlyCollectable(links, mid + 1, hi,
                                 seen \cup {links[j] : j \in lo..mid})

ExpectedUrls(c) ==
    LET links == LinksOfPages(c, ScannablePages(c))
    IN  Take(NewlyCollectable(links, 1, Len(links), visited_at_start[c]),
             MAX_ITEMS_PER_CATEGORY)

\* Distinct links the listing pages within the page-scan limit expose that were
\* not visited when the walk of c began.
DiscoverableLinks(c) ==
    UNION {Range(Listing(c, p)) : p \in 1..MAX_PAGES_TO_SCAN} \ visited_at_start[c]

\* C1 (as amended): a category never holds more than MAX_ITEMS_PER_CATEGORY
\* records; at every point its records are the earliest-discovered new links,
\* in page-then-link order over the pages before the first empty page, whose
\* item fetch did not fail; and when its walk has ended they are exactly the
\* first min(S, MAX_ITEMS_PER_CATEGORY) of those S links.
CapEnforcement ==
    \A c \in 1..category_index :
        LET got == Urls(RecordsOf(c))
            expected == ExpectedUrls(c)
        IN  /\ Len(got) <= MAX_ITEMS_PER_CATEGORY
            /\ IsPrefix(got, expected)
            /\ WalkComplete(c) => got = expected

\* C1 witness: a finished walk over CatalogueSize discoverable items, some of
\* whose fetches failed, holding exactly the cap.
CapEnforcementWitness ==
    /\ WalkComplete(1)
    /\ category_index >= 1
    /\ Cardinality(DiscoverableLinks(1)) >= CatalogueSize
    /\ Len(RecordsOf(1)) = MAX_ITEMS_PER_CATEGORY
    /\ failure_log # <<>>

\* C1 (as stated): a finished walk holds exactly min(N, MAX_ITEMS_PER_CATEGORY)
\* records, N the number of distinct not-yet-visited links its listing pages
\* within the page-scan limit expose.
CapExactlyMinOfDiscoverable ==
    \A c \in 1..category_index :
        WalkComplete(c) =>
            Len(RecordsOf(c)) = Min(Cardinality(DiscoverableLinks(c)), MAX_ITEMS_PER_CATEGORY)

\* C2: no two records of collected_items share a source_url, and every
\* source_url of collected_items is in visited_item_urls.
SourceUrlUnique ==
    /\ Cardinality(Range(Urls(collected_items))) = Len(collected_items)
    /\ Range(Urls(collected_items)) \subseteq visited_item_urls

\* C2 witness: a recorded item whose link was met again and skipped, with
\* records of two categories collected.
SourceUrlUniqueWitness ==
    /\ \E u \in DOMAIN discovered_by :
          Len(discovered_by[u]) >= 2 /\ RecordsAbout(u) # <<>>
    /\ Len(RecordsOf(1)) > 0
    /\ Len(RecordsOf(2)) > 0

SharedUrls == {u \in DOMAIN discovered_by : Cardinality(Range(discovered_by[u])) >= 2}

\* C3 (as amended): an item link reached by the walks of two categories is
\* fetched once, by the category whose walk reached it first; it is recorded
\* once, tagged with that category, when that fetch succeeded and not at all
\* when it failed; the later category neither re-fetches nor records it.
FirstCategoryOwns ==
    \A u \in SharedUrls :
        LET first == discovered_by[u][1]
        IN  /\ \A i \in DOMAIN discovered_by[u] : first <= discovered_by[u][i]
            /\ fetched_by[u] = <<first>>
            /\ RecordsAbout(u) =
                  IF u \in Range(failure_log) THEN <<>>
                  ELSE <<RawItemRecord(u, CATEGORY_PATHS[first])>>

\* C3 witness: the run has ended with a shared item recorded for its first
\* category and another shared item, whose fetch failed, recorded nowhere.
FirstCategoryOwnsWitness ==
    /\ pc = "done"
    /\ \E u \in SharedUrls : Len(RecordsAbout(u)) = 1
    /\ \E u \in SharedUrls : RecordsAbout(u) = <<>>

\* C3 (as stated): an item link reached by the walks of two categories is
\* recorded once, tagged with the category whose walk reached it first.
SharedItemRecordedOnce ==
    \A u \in SharedUrls :
        RecordsAbout(u) = <<RawItemRecord(u, CATEGORY_PATHS[discovered_by[u][1]])>>

\* C4: a walk fetches pages 1, 2, 3, ... in order, at most MAX_PAGES_TO_SCAN of
\* them, and none after a page without item links.
PagesInOrder ==
    \A c \in 1..Len(CATEGORY_PATHS) :
        LET pages == PagesFetched(c)
        IN  /\ Len(pages) <= MAX_PAGES_TO_SCAN
            /\ \A i \in DOMAIN pages :
                  /\ pages[i] = i
                  /\ i > 1 => Listing(c, i - 1) # <<>>
            /\ Listing(c, 3) = <<>> => Len(pages) <= 3

\* C4: a step that fetches listing page n + 1 is taken only with the cap not
\* reached, n below MAX_PAGES_TO_SCAN and page n having yielded a link.
NextPageOnlyIf ==
    listing_fetches' # listing_fetches =>
        /\ items_collected < MAX_ITEMS_PER_CATEGORY
        /\ page_number - 1 < MAX_PAGES_TO_SCAN
        /\ page_number > 1 => Listing(category_index, page_number - 1) # <<>>

\* C4: the pagination stopping rule, and every walk (hence the run) ends.
PaginationStops ==
    /\ []PagesInOrder
    /\ [][NextPageOnlyIf]_vars
    /\ <>RunEnded

\* C4 witness: in one run, a walk that used all MAX_PAGES_TO_SCAN pages and a
\* walk that stopped at an empty page 3 although page 4 lists items.
PaginationStopsWitness ==
    /\ pc = "done"
    /\ \E c \in 1..Len(CATEGORY_PATHS) : Len(PagesFetched(c)) = MAX_PAGES_TO_SCAN
    /\ \E c \in 1..Len(CATEGORY_PATHS) :
          /\ Listing(c, 3) = <<>>
          /\ Listing(c, 4) # <<>>
          /\ PagesFetched(c) = <<1, 2, 3>>

\* C5: a step on which an item fetch fails appends no record, leaves
\* items_collected alone and moves to the next link of the same page.
FailureIsLocalStep ==
    failure_log' # failure_log =>
        /\ collected_items' = collected_items
        /\ items_collected' = items_collected
        /\ pc' = "for_link"
        /\ link_index' = link_index + 1
        /\ <<item_links, page_number, category_index>>' =
              <<item_links, page_number, category_index>>

\* C5: a failed item has no record, and a run that has logged a failure and
\* not ended can take its next step.
FailureDoesNotHalt ==
    /\ \A i \in DOMAIN failure_log : RecordsAbout(failure_log[i]) = <<>>
    /\ (failure_log # <<>> /\ ~RunEnded) => ENABLED ScrapeNext

\* C5: per-item failure is local.
PerItemFailureLocal == []FailureDoesNotHalt /\ [][FailureIsLocalStep]_vars

\* C5 witness: after a failed item the next link of the page, a later page and
\* a later category were all collected, and the snapshot was written.
PerItemFailureLocalWitness ==
    /\ pc = "done"
    /\ failure_log # <<>>
    /\ failure_log[1] = 1
    /\ RecordsAbout(2) # <<>>
    /\ RecordsAbout(PageSize + 1) # <<>>
    /\ RecordsOf(Len(CATEGORY_PATHS)) # <<>>

\* C6 (as stated): whatever fetch fails, the run ends with the raw snapshot of
\* the records collected so far written.
BestEffortSnapshot == RunEnded => raw_snapshot = Written(collected_items)
====
